---- MODULE Spec2Model ----
(***************************************************************************)
(* netifmon: a polling monitor of the host's network interfaces.           *)
(* Metrics holds a MetricsState {old, new, diff}; Metrics.refresh()        *)
(* captures a snapshot, runs the differs, persists the snapshot as JSON    *)
(* and installs the new MetricsState.  A chain of threading.Timer objects  *)
(* drives refresh(); Flask handlers read metrics.state concurrently.       *)
(***************************************************************************)
EXTENDS Integers, Sequences, FiniteSets, TLC

\* ------------------------------------------------------------------------
\* Bounds
\* ------------------------------------------------------------------------
MaxTimers == 3      \* threading.Timer objects created by start_timer per run
MaxRestarts == 1    \* process restarts
MaxInterrupts == 2  \* interrupt() calls per run

\* ------------------------------------------------------------------------
\* Program constants
\* ------------------------------------------------------------------------
AF_INET6 == 10          \* netifaces.AF_INET6 on Linux
PrefixLength == 64      \* --prefix-length default
Interface == "eth0"     \* --interface default
FilePath == "interface.state"   \* --file default

\* ------------------------------------------------------------------------
\* Python values
\* ------------------------------------------------------------------------
\* Optional[T]: None is the empty set, a present value x is {x}.
None == {}
Some(x) == {x}
TheVal(o) == CHOOSE x \in o : TRUE

\* dict keys: a Python str key and a Python int key are different keys even
\* when they print the same ("10" vs 10).
PyStr(s) == [ty |-> "str", v |-> s]
PyInt(n) == [ty |-> "int", v |-> ToString(n)]

EmptyDict == [k \in {} |-> k]

\* dict.get(key): None when the key is missing
DictGet(d, k) == IF k \in DOMAIN d THEN Some(d[k]) ELSE None

\* bool(x) of a dict / list
Truthy(d) == DOMAIN d # {}

\* ------------------------------------------------------------------------
\* json.dump / json.load
\* ------------------------------------------------------------------------
\* json.dump writes every dict key as a JSON member name, i.e. as text:
\* int keys are written as their decimal text.
DumpKeys(d) == [s \in {k.v : k \in DOMAIN d} |->
                  d[CHOOSE k \in DOMAIN d : k.v = s]]

\* json.load builds dicts whose keys are all str.
LoadKeys(o) == [k \in {PyStr(s) : s \in DOMAIN o} |-> o[k.v]]

\* A snapshot is a dict interface name -> (dict family -> list of entries).
JsonDump(snap) == DumpKeys([i \in DOMAIN snap |-> DumpKeys(snap[i])])
JsonLoad(doc) == LoadKeys([s \in DOMAIN doc |-> LoadKeys(doc[s])])

\* A JSON text: an object with its members, an array, null, text that is
\* not JSON at all, or the empty text of a file just truncated.
ObjectText(doc) == [kind |-> "object", members |-> doc]
ArrayText == [kind |-> "array", members |-> EmptyDict]
NullText == [kind |-> "null", members |-> EmptyDict]
InvalidText == [kind |-> "invalid", members |-> EmptyDict]
EmptyText == [kind |-> "empty", members |-> EmptyDict]

\* The Python list json.load returns for a (non-empty) JSON array.  It is not
\* a dict: its only key has the type "list".
PyList == ([ty |-> "list", v |-> "0"] :> <<>>)
IsDict(x) == \A k \in DOMAIN x : k.ty # "list"

\* json.load(file): raises JSONDecodeError for text that is not JSON, the
\* empty text included
JsonLoadRaises(text) == text.kind \in {"invalid", "empty"}
JsonLoads(text) ==
  IF text.kind = "object" THEN JsonLoad(text.members) ELSE PyList

\* content the file can have when something other than refresh wrote it
ForeignTexts == {InvalidText, ArrayText}

\* ------------------------------------------------------------------------
\* netaddr: IPNetwork(f"{addr}/{prefix_length}").network
\* ------------------------------------------------------------------------
\* An IPv6 address is its eight 16-bit groups.
Pow2(n) == 2 ^ n

\* netaddr rejects an address with a zone id, which is how netifaces
\* reports link-local addresses (AddrFormatError)
IPNetworkRaises(s) ==
  s \notin {"2001:db8::1", "2001:db8::2", "2001:db9::1", "::1"}

ParseIPv6(s) ==
  CASE s = "2001:db8::1" -> <<8193, 3512, 0, 0, 0, 0, 0, 1>>
    [] s = "2001:db8::2" -> <<8193, 3512, 0, 0, 0, 0, 0, 2>>
    [] s = "2001:db9::1" -> <<8193, 3513, 0, 0, 0, 0, 0, 1>>
    [] s = "::1"         -> <<0, 0, 0, 0, 0, 0, 0, 1>>

\* number of leading bits of group g (1..8) covered by a prefix of plen bits
KeptBits(plen, g) ==
  LET k == plen - 16 * (g - 1)
  IN  IF k < 0 THEN 0 ELSE IF k > 16 THEN 16 ELSE k

Network_unmasked(addr, plen) == addr
Network(addr, plen) ==
  [g \in 1..8 |-> LET low == Pow2(16 - KeptBits(plen, g))
                  IN  (addr[g] \div low) * low]

\* ------------------------------------------------------------------------
\* Differs
\* ------------------------------------------------------------------------
DifferName == PyStr("ipv6_prefix")
DifferNames == {DifferName}

\* ipv6_prefix.get(interfaces): interfaces is Optional[dict]
Get(interfaces) ==
  IF interfaces = None THEN None
  ELSE LET interface == DictGet(TheVal(interfaces), PyStr(Interface))
       IN IF interface = None \/ ~Truthy(TheVal(interface)) THEN None
          ELSE LET addresses == DictGet(TheVal(interface), PyInt(AF_INET6))
               IN IF addresses = None \/ Len(TheVal(addresses)) = 0 THEN None
                  ELSE LET first_address == Head(TheVal(addresses))
                           addr == first_address.addr
                       IN IF addr = None \/ TheVal(addr) = "" THEN None
                          ELSE Some(Network(ParseIPv6(TheVal(addr)),
                                            PrefixLength))

\* the addr the comprehension of ipv6_prefix.get reaches (None if a link of
\* the chain is missing); interfaces is a dict
AddrOf(interfaces) ==
  LET interface == DictGet(interfaces, PyStr(Interface))
  IN IF interface = None \/ ~Truthy(TheVal(interface)) THEN None
     ELSE LET addresses == DictGet(TheVal(interface), PyInt(AF_INET6))
          IN IF addresses = None \/ Len(TheVal(addresses)) = 0 THEN None
             ELSE LET addr == Head(TheVal(addresses)).addr
                  IN  IF addr = None \/ TheVal(addr) = "" THEN None ELSE addr

\* ipv6_prefix.get raises: AttributeError when interfaces has no .get,
\* AddrFormatError when IPNetwork rejects the address
GetRaises(interfaces) ==
  /\ interfaces # None
  /\ \/ ~IsDict(TheVal(interfaces))
     \/ /\ AddrOf(TheVal(interfaces)) # None
        /\ IPNetworkRaises(TheVal(AddrOf(TheVal(interfaces))))

\* ChangeGaugeDiffer.changed / diff
Changed_ignoresAbsent(old, new) == old # None /\ new # None /\ old # new
Changed(old, new) == old # new
Diff_inverted(old, new) == IF Changed(old, new) THEN 0 ELSE 1
Diff(old, new) == IF Changed(old, new) THEN 1 ELSE 0

\* ------------------------------------------------------------------------
\* MetricsState
\* ------------------------------------------------------------------------
NewMetricsState == [old |-> None, new |-> None, diff |-> EmptyDict]

\* ------------------------------------------------------------------------
\* The operating system (netifaces)
\* ------------------------------------------------------------------------
Entry(a) == [addr |-> Some(a)]
V6(list) == (PyInt(AF_INET6) :> list)

LoData == V6(<<Entry("::1")>>)
EthData == { V6(<<Entry("2001:db8::1")>>),
             V6(<<Entry("2001:db8::2")>>),
             V6(<<Entry("2001:db9::1")>>),
             V6(<<Entry("fe80::1%eth0")>>) }

\* what netifaces can report: no interface at all, lo alone, eth0 alone
\* without IPv6, or eth0 with one of the addresses next to lo
OsConfigs ==
  {EmptyDict, (PyStr("lo") :> LoData), (PyStr(Interface) :> EmptyDict)}
    \cup {(PyStr(Interface) :> e) @@ (PyStr("lo") :> LoData) :
            e \in EthData}

\* netifaces.interfaces()
Interfaces(o) == DOMAIN o
\* netifaces.ifaddresses(name) raises ValueError for an unknown interface
IfaddressesRaises(o, name) == PyStr(name) \notin DOMAIN o
Ifaddresses(o, name) == o[PyStr(name)]

\* the dict comprehension of Metrics.refresh
CaptureRaises(o) == Interfaces(o) # {} /\ IfaddressesRaises(o, Interface)
Capture(o) == [interface \in Interfaces(o) |-> Ifaddresses(o, Interface)]

\* ------------------------------------------------------------------------
\* Statement order of the code
\* ------------------------------------------------------------------------
\* Metrics.refresh(): the statements in program order
MetricsRefreshBody_installFirst ==
  <<"new_state", "install", "capture", "differs", "open", "json.dump">>
MetricsRefreshBody ==
  <<"new_state", "capture", "differs", "open", "json.dump", "install">>

\* refresh(), the timer callback: the statements in program order
RefreshBody_fixedRate == <<"start_timer", "metrics.refresh">>
RefreshBody == <<"metrics.refresh", "start_timer">>

\* new_state.old = self.state.new
RefreshOld_stale(cur) == cur.old
RefreshOld(cur) == cur.new

\* Metrics.__init__: the MetricsState after reading the persisted file
\* (f is the file's content, None when the file does not exist)
InitState(f) ==
  IF f = None \/ JsonLoadRaises(TheVal(f)) THEN NewMetricsState
  ELSE LET file_data == JsonLoads(TheVal(f))
       IN  IF Truthy(file_data)
           THEN [old |-> Some(file_data), new |-> Some(file_data),
                 diff |-> EmptyDict]
           ELSE NewMetricsState

\* flask.jsonify of the attribute a handler returns
Jsonify(h, st) ==
  IF h = "interfaces"
  THEN (IF st.new = None THEN NullText
        ELSE IF IsDict(TheVal(st.new))
             THEN ObjectText(JsonDump(TheVal(st.new)))
             ELSE ArrayText)
  ELSE ObjectText(DumpKeys(st.diff))

\* ------------------------------------------------------------------------
\* State
\* ------------------------------------------------------------------------
VARIABLES
  file,        \* content of the persisted-state file, None if missing
  mainpc,      \* main(): "boot", "constructed", "serving"
  metrics,     \* the global metrics is not None
  state,       \* metrics.state: id of a MetricsState object
  heap,        \* the live MetricsState objects: id -> [old, new, diff]
  nalloc,      \* number of MetricsState objects allocated
  gauge,       \* value of the ipv6_prefix differ's Gauge
  timer,       \* the global timer: id of a Timer
  timers,      \* the Timer threads
  ntimers,     \* number of Timer objects created
  rd,          \* a request handler thread (get_interfaces / get_diff)
  interrupted, \* interrupt() has been invoked in this run
  icalls,      \* number of interrupt() calls in this run
  ierr,        \* an interrupt() call raised
  restarts,    \* number of process restarts
  installed,   \* history: id -> the MetricsState as it was when installed
  ncomplete,   \* history: completed Metrics.refresh() calls in this run
  g_os,        \* history: what the OS reported to the last completed call
  g_cap,       \* history: snapshot captured by the last completed call
  g_last,      \* history: `new` installed by the last completed call
  g_prev,      \* history: `new` installed by the call before it
  file_x,      \* history: the snapshot whose dump is the file's content
  loaded_x     \* history: file_x when Metrics.__init__ read the file

vars == <<file, mainpc, metrics, state, heap, nalloc, gauge, timer,
          timers, ntimers, rd, interrupted, icalls, ierr, restarts, installed, ncomplete,
          g_os, g_cap, g_last, g_prev, file_x, loaded_x>>

histVars == <<installed, ncomplete, g_os, g_cap, g_last, g_prev, loaded_x>>

\* threading.Timer(interval, function, args), not yet started
NewTimer(fn) ==
  [fn |-> fn, finished |-> FALSE, phase |-> "created", i |-> 0, j |-> 0,
   ns |-> None, seen |-> None, cap |-> None, pre |-> None, wfail |-> FALSE,
   err |-> ""]

\* timer = threading.Timer(0, lambda _: None, ()): the Timer objects that
\* exist when the module is loaded
ModuleTimers_none == EmptyDict
ModuleTimers == (0 :> NewTimer("lambda"))

IdleReader == [pc |-> "idle", h |-> "", ref |-> None]

\* objects that are still referenced (the others are freed)
Refs(st, tm, r) == {st} \cup r.ref \cup UNION {tm[t].ns : t \in DOMAIN tm}
Prune(h, live) == [id \in DOMAIN h \cap live |-> h[id]]

Init ==
  /\ file \in {None} \cup {Some(text) : text \in ForeignTexts}
  /\ file_x = None
  /\ restarts = 0
  /\ mainpc = "boot"
  /\ metrics = FALSE
  /\ state = 0
  /\ heap = EmptyDict
  /\ nalloc = 0
  /\ gauge = 0
  /\ timer = 0
  /\ timers = ModuleTimers
  /\ ntimers = 1
  /\ rd = IdleReader
  /\ interrupted = FALSE
  /\ icalls = 0
  /\ ierr = FALSE
  /\ installed = EmptyDict
  /\ ncomplete = 0
  /\ g_os = None
  /\ g_cap = None
  /\ g_last = None
  /\ g_prev = None
  /\ loaded_x = None

\* ------------------------------------------------------------------------
\* Environment
\* ------------------------------------------------------------------------
\* the process is stopped and started again; only the file survives
Restart ==
  /\ mainpc # "boot"
  /\ restarts < MaxRestarts
  /\ restarts' = restarts + 1
  /\ mainpc' = "boot"
  /\ metrics' = FALSE
  /\ state' = 0
  /\ heap' = EmptyDict
  /\ nalloc' = 0
  /\ gauge' = 0
  /\ timer' = 0
  /\ timers' = ModuleTimers
  /\ ntimers' = 1
  /\ rd' = IdleReader
  /\ interrupted' = FALSE
  /\ icalls' = 0
  /\ ierr' = FALSE
  /\ installed' = EmptyDict
  /\ ncomplete' = 0
  /\ g_os' = None
  /\ g_cap' = None
  /\ g_last' = None
  /\ g_prev' = None
  /\ loaded_x' = None
  /\ UNCHANGED <<file, file_x>>

\* ------------------------------------------------------------------------
\* main()
\* ------------------------------------------------------------------------
\* metrics = Metrics(...)
Construct ==
  /\ mainpc = "boot"
  /\ mainpc' = "constructed"
  /\ metrics' = TRUE
  /\ state' = nalloc
  /\ nalloc' = nalloc + 1
  /\ heap' = (nalloc :> InitState(IF FilePath # "" THEN file ELSE None))
  /\ installed' = heap'
  /\ g_last' = heap'[nalloc].new
  /\ loaded_x' = file_x
  /\ UNCHANGED <<file, gauge, timer, timers, ntimers, rd, interrupted, icalls, ierr,
                 restarts, ncomplete, g_os, g_cap, g_prev, file_x>>

\* start_timer(): the Timer table, the global timer and the Timer count
\* after the call
StartTimer ==
  LET created == IF metrics THEN timers @@ (ntimers :> NewTimer("refresh"))
                 ELSE timers
      cur == IF metrics THEN ntimers ELSE timer
      \* timer.start(): the thread begins to wait for its interval
      started == [created EXCEPT ![cur].phase =
                    IF @ = "created" THEN "waiting" ELSE @]
  IN  [timers |-> started, timer |-> cur,
       ntimers |-> IF metrics THEN ntimers + 1 ELSE ntimers]

\* start_refresh_loop()
StartRefreshLoop ==
  /\ mainpc = "constructed"
  /\ mainpc' = "serving"
  /\ timers' = StartTimer.timers
  /\ timer' = StartTimer.timer
  /\ ntimers' = StartTimer.ntimers
  /\ UNCHANGED <<file, metrics, state, heap, nalloc, gauge, rd,
                 interrupted, icalls, ierr, restarts, installed, ncomplete, g_os, g_cap,
                 g_last, g_prev, file_x, loaded_x>>

\* interrupt(): timer.cancel() sets the finished event of the global timer;
\* the call raises if the global timer is not a Timer
Interrupt ==
  /\ icalls < MaxInterrupts
  /\ icalls' = icalls + 1
  /\ interrupted' = TRUE
  /\ IF timer \in DOMAIN timers
     THEN /\ timers' = [timers EXCEPT ![timer].finished = TRUE]
          /\ ierr' = ierr
     ELSE /\ timers' = timers
          /\ ierr' = TRUE
  /\ UNCHANGED <<file, mainpc, metrics, state, heap, nalloc, gauge,
                 timer, ntimers, rd, restarts, installed, ncomplete, g_os,
                 g_cap, g_last, g_prev, file_x, loaded_x>>

\* ------------------------------------------------------------------------
\* Timer threads (threading.Timer.run)
\* ------------------------------------------------------------------------
Threads == DOMAIN timers

\* the function returned: run() sets finished and the thread ends
Return(r) ==
  [r EXCEPT !.phase = "exited", !.finished = TRUE, !.i = 0, !.j = 0,
            !.ns = None, !.seen = None, !.cap = None, !.pre = None]
\* an exception left the function: the thread ends
Raise(r, e) ==
  [r EXCEPT !.phase = "exited", !.err = e, !.i = 0, !.j = 0, !.ns = None]

\* a statement of refresh() is done
AfterStmt(r) ==
  IF r.i < Len(RefreshBody)
  THEN [r EXCEPT !.i = r.i + 1, !.j = 0, !.ns = None, !.seen = None,
                 !.cap = None, !.pre = None]
  ELSE Return(r)
\* a statement of Metrics.refresh() is done
AfterStep(r) ==
  IF r.j < Len(MetricsRefreshBody) THEN [r EXCEPT !.j = r.j + 1]
  ELSE AfterStmt(r)

At(t, stmt) ==
  /\ timers[t].phase = "running"
  /\ timers[t].fn = "refresh"
  /\ RefreshBody[timers[t].i] = stmt
InStep(t, step) ==
  /\ At(t, "metrics.refresh")
  /\ timers[t].j >= 1
  /\ MetricsRefreshBody[timers[t].j] = step

\* the interval has passed and finished is not set: the function is called
Fire(t) ==
  /\ timers[t].phase = "waiting"
  /\ ~timers[t].finished
  /\ ntimers <= MaxTimers
  /\ timers' = [timers EXCEPT ![t] =
       IF timers[t].fn = "refresh"
       THEN [@ EXCEPT !.phase = "running", !.i = 1, !.j = 0]
       ELSE Raise(@, "lambda")]
  /\ UNCHANGED <<file, mainpc, metrics, state, heap, nalloc, gauge,
                 timer, ntimers, rd, interrupted, icalls, ierr, restarts, installed,
                 ncomplete, g_os, g_cap, g_last, g_prev, file_x, loaded_x>>

\* finished was set while the thread waited: the function is not called
CancelledExit(t) ==
  /\ timers[t].phase = "waiting"
  /\ timers[t].finished
  /\ timers' = [timers EXCEPT ![t] = Return(@)]
  /\ UNCHANGED <<file, mainpc, metrics, state, heap, nalloc, gauge,
                 timer, ntimers, rd, interrupted, icalls, ierr, restarts, installed,
                 ncomplete, g_os, g_cap, g_last, g_prev, file_x, loaded_x>>

\* refresh(): if metrics: metrics.refresh()
EnterMetricsRefresh(t) ==
  /\ At(t, "metrics.refresh")
  /\ timers[t].j = 0
  /\ timers' = [timers EXCEPT ![t] =
       IF metrics THEN [@ EXCEPT !.j = 1, !.pre = Some(heap[state])]
       ELSE AfterStmt(@)]
  /\ UNCHANGED <<file, mainpc, metrics, state, heap, nalloc, gauge,
                 timer, ntimers, rd, interrupted, icalls, ierr, restarts, installed,
                 ncomplete, g_os, g_cap, g_last, g_prev, file_x, loaded_x>>

\* new_state = MetricsState(); new_state.old = self.state.new
StepNewState(t) ==
  /\ InStep(t, "new_state")
  /\ heap' = heap @@
       (nalloc :> [NewMetricsState EXCEPT !.old = RefreshOld(heap[state])])
  /\ nalloc' = nalloc + 1
  /\ timers' = [timers EXCEPT ![t] = AfterStep([@ EXCEPT !.ns = Some(nalloc)])]
  /\ UNCHANGED <<file, mainpc, metrics, state, gauge, timer, ntimers,
                 rd, interrupted, icalls, ierr, restarts, installed, ncomplete, g_os,
                 g_cap, g_last, g_prev, file_x, loaded_x>>

\* new_state.new = {interface: netifaces.ifaddresses(self.interface) ...}
\* o: what the operating system reports; oserr: its query fails
StepCapture(t) ==
  /\ InStep(t, "capture")
  /\ \E o \in OsConfigs, oserr \in BOOLEAN :
       IF oserr \/ CaptureRaises(o)
       THEN /\ timers' = [timers EXCEPT ![t] =
                 Raise([@ EXCEPT !.seen = IF oserr THEN None ELSE Some(o)],
                       "capture")]
            /\ heap' = Prune(heap, Refs(state, timers', rd))
            /\ installed' = Prune(installed, Refs(state, timers', rd))
       ELSE /\ heap' = [heap EXCEPT ![TheVal(timers[t].ns)].new =
                          Some(Capture(o))]
            /\ timers' = [timers EXCEPT ![t] =
                 AfterStep([@ EXCEPT !.cap = Some(Capture(o)),
                                     !.seen = Some(o)])]
            /\ installed' = installed
  /\ UNCHANGED <<file, mainpc, metrics, state, nalloc, gauge, timer,
                 ntimers, rd, interrupted, icalls, ierr, restarts, ncomplete, g_os,
                 g_cap, g_last, g_prev, file_x, loaded_x>>

\* new_state.diff = {}; for differ in self.differs: ...
StepDiffers(t) ==
  /\ InStep(t, "differs")
  /\ LET ns == TheVal(timers[t].ns)
     IN  IF GetRaises(heap[ns].old) \/ GetRaises(heap[ns].new)
         THEN /\ timers' = [timers EXCEPT ![t] = Raise(@, "differs")]
              /\ gauge' = gauge
              /\ heap' = Prune(heap, Refs(state, timers', rd))
              /\ installed' = Prune(installed, Refs(state, timers', rd))
         ELSE LET old == Get(heap[ns].old)
                  new == Get(heap[ns].new)
                  diff == Diff(old, new)
              IN  /\ gauge' = diff
                  /\ heap' = [heap EXCEPT ![ns].diff = (DifferName :> diff)]
                  /\ timers' = [timers EXCEPT ![t] = AfterStep(@)]
                  /\ installed' = installed
  /\ UNCHANGED <<file, mainpc, metrics, state, nalloc, timer, ntimers,
                 rd, interrupted, icalls, ierr, restarts, ncomplete, g_os,
                 g_cap, g_last, g_prev, file_x, loaded_x>>

\* if self.file_path: with open(self.file_path, "w+") as file:
\* open(..., "w+") truncates the file when it succeeds (ok) and leaves it
\* alone when it raises OSError
StepOpen(t) ==
  /\ InStep(t, "open")
  /\ IF FilePath = ""
     THEN /\ timers' = [timers EXCEPT ![t] = AfterStep(AfterStep(@))]
          /\ UNCHANGED <<file, file_x>>
     ELSE \E ok \in BOOLEAN :
       IF ok
       THEN /\ file' = Some(EmptyText)
            /\ file_x' = None
            /\ timers' = [timers EXCEPT ![t] = AfterStep(@)]
       ELSE /\ timers' = [timers EXCEPT ![t] =
                 Raise([@ EXCEPT !.wfail = TRUE], "persist")]
            /\ UNCHANGED <<file, file_x>>
  /\ heap' = Prune(heap, Refs(state, timers', rd))
  /\ installed' = Prune(installed, Refs(state, timers', rd))
  /\ UNCHANGED <<mainpc, metrics, state, nalloc, gauge, timer,
                 ntimers, rd, interrupted, icalls, ierr, restarts, ncomplete, g_os,
                 g_cap, g_last, g_prev, loaded_x>>

\* json.dump(new_state.new, file) and the close at the end of the with block:
\* the whole text reaches the file (ok), or the write raises OSError and the
\* file keeps what had reached it: nothing, as open() left it, or a cut-off
\* text that is not JSON
StepDump(t) ==
  /\ InStep(t, "json.dump")
  /\ \E ok \in BOOLEAN :
       IF ok
       THEN /\ file' = Some(ObjectText(
                        JsonDump(TheVal(heap[TheVal(timers[t].ns)].new))))
            /\ file_x' = heap[TheVal(timers[t].ns)].new
            /\ timers' = [timers EXCEPT ![t] = AfterStep(@)]
       ELSE /\ \E left \in {EmptyText, InvalidText} : file' = Some(left)
            /\ file_x' = None
            /\ timers' = [timers EXCEPT ![t] =
                 Raise([@ EXCEPT !.wfail = TRUE], "persist")]
  /\ heap' = Prune(heap, Refs(state, timers', rd))
  /\ installed' = Prune(installed, Refs(state, timers', rd))
  /\ UNCHANGED <<mainpc, metrics, state, nalloc, gauge, timer,
                 ntimers, rd, interrupted, icalls, ierr, restarts, ncomplete, g_os,
                 g_cap, g_last, g_prev, loaded_x>>

\* self.state = new_state
StepInstall(t) ==
  /\ InStep(t, "install")
  /\ state' = TheVal(timers[t].ns)
  /\ timers' = [timers EXCEPT ![t] = AfterStep(@)]
  /\ heap' = Prune(heap, Refs(state', timers', rd))
  /\ installed' = Prune(installed @@ (state' :> heap[state']),
                        Refs(state', timers', rd))
  /\ ncomplete' = ncomplete + 1
  /\ g_os' = timers[t].seen
  /\ g_cap' = timers[t].cap
  /\ g_last' = heap[state'].new
  /\ g_prev' = g_last
  /\ UNCHANGED <<file, mainpc, metrics, nalloc, gauge, timer,
                 ntimers, rd, interrupted, icalls, ierr, restarts, file_x, loaded_x>>

\* refresh(): start_timer()
StepStartTimer(t) ==
  /\ At(t, "start_timer")
  /\ timers' = [StartTimer.timers EXCEPT ![t] = AfterStmt(@)]
  /\ timer' = StartTimer.timer
  /\ ntimers' = StartTimer.ntimers
  /\ UNCHANGED <<file, mainpc, metrics, state, heap, nalloc, gauge, rd,
                 interrupted, icalls, ierr, restarts, installed, ncomplete, g_os, g_cap,
                 g_last, g_prev, file_x, loaded_x>>

\* ------------------------------------------------------------------------
\* Read surface: get_interfaces / get_diff
\* ------------------------------------------------------------------------
Handlers == {"interfaces", "diff"}

\* the handler is entered: `metrics is None` is tested and metrics.state read
ReaderCall(h) ==
  /\ rd.pc = "idle"
  /\ rd' = IF metrics
           THEN [pc |-> "loaded", h |-> h, ref |-> Some(state)]
           ELSE [pc |-> "nometrics", h |-> h, ref |-> None]
  /\ UNCHANGED <<file, mainpc, metrics, state, heap, nalloc, gauge,
                 timer, timers, ntimers, interrupted, icalls, ierr, restarts, installed,
                 ncomplete, g_os, g_cap, g_last, g_prev, file_x, loaded_x>>

\* what the handler returns: jsonify({}) without metrics, otherwise
\* jsonify(metrics.state.new) / jsonify(metrics.state.diff)
Response ==
  IF rd.pc = "nometrics" THEN ObjectText(EmptyDict)
  ELSE Jsonify(rd.h, heap[TheVal(rd.ref)])

\* the attribute is read, the response is built and sent
ReaderReturn ==
  /\ rd.pc # "idle"
  /\ rd' = IdleReader
  /\ heap' = Prune(heap, Refs(state, timers, rd'))
  /\ installed' = Prune(installed, Refs(state, timers, rd'))
  /\ UNCHANGED <<file, mainpc, metrics, state, nalloc, gauge,
                 timer, timers, ntimers, interrupted, icalls, ierr, restarts,
                 ncomplete, g_os, g_cap, g_last, g_prev, file_x, loaded_x>>

\* ------------------------------------------------------------------------
\* Specification
\* ------------------------------------------------------------------------
Next ==
  \/ Restart
  \/ Construct
  \/ StartRefreshLoop
  \/ Interrupt
  \/ \E t \in Threads : Fire(t)
  \/ \E t \in Threads : CancelledExit(t)
  \/ \E t \in Threads : EnterMetricsRefresh(t)
  \/ \E t \in Threads : StepNewState(t)
  \/ \E t \in Threads : StepCapture(t)
  \/ \E t \in Threads : StepDiffers(t)
  \/ \E t \in Threads : StepOpen(t)
  \/ \E t \in Threads : StepDump(t)
  \/ \E t \in Threads : StepInstall(t)
  \/ \E t \in Threads : StepStartTimer(t)
  \/ \E h \in Handlers : ReaderCall(h)
  \/ ReaderReturn

Spec == Init /\ [][Next]_vars

\* ------------------------------------------------------------------------
\* Properties
\* ------------------------------------------------------------------------
Running(t) == timers[t].phase = "running"
InMetricsRefresh(t) == Running(t) /\ timers[t].j >= 1
Cur == heap[state]

\* C1: after N >= 1 completed Metrics.refresh() calls the installed state has
\* `new` equal to the snapshot captured by call N and `old` equal to the
\* `new` installed by call N-1 (for N = 1: the `new` the constructor left,
\* i.e. the loaded baseline or None).
C1_RefreshRotates ==
  ncomplete >= 1 => (Cur.new = g_cap /\ Cur.old = g_prev)

\* two calls have completed in a run that started from a persisted file, and
\* the rotation moved a snapshot from `new` to `old`
C1_Witness ==
  /\ ncomplete >= 2
  /\ loaded_x # None
  /\ Cur.old # None
  /\ Cur.old # Cur.new

\* C2: while a handler holds the MetricsState it read from metrics.state, that
\* object is exactly a state that was installed (by the constructor or by a
\* completed refresh), unchanged since, and its diff map is either the
\* constructor's empty map or has an entry for every differ.
C2_ReaderSeesInstalledState ==
  rd.pc = "loaded" =>
    LET r == TheVal(rd.ref)
    IN  /\ r \in DOMAIN installed
        /\ r \in DOMAIN heap
        /\ heap[r] = installed[r]
        /\ \/ /\ r = 0
              /\ heap[r].diff = EmptyDict
              /\ heap[r].old = heap[r].new
           \/ /\ DOMAIN heap[r].diff = DifferNames
              /\ heap[r].new # None

\* a handler read metrics.state during a refresh that has since installed its
\* new state: the handler still holds the pre-refresh state
C2_Witness ==
  /\ rd.pc = "loaded"
  /\ TheVal(rd.ref) # state
  /\ ncomplete >= 1

\* C3: at most one Metrics.refresh() executes at a time, and while the timer
\* callback has not finished its Metrics.refresh() no other Timer is waiting
\* or running (the next Timer is created only afterwards).
C3_OneRefreshAtATime ==
  /\ Cardinality({t \in Threads : InMetricsRefresh(t)}) <= 1
  /\ \A t \in Threads :
       (Running(t) /\ RefreshBody[timers[t].i] = "metrics.refresh") =>
         /\ timer = t
         /\ \A u \in Threads \ {t} :
              timers[u].phase \notin {"waiting", "running"}

\* the second cycle of a run is capturing
C3_Witness ==
  /\ ncomplete >= 1
  /\ \E t \in Threads : InStep(t, "capture")

\* C4: once interrupt() has cancelled the current Timer of a started loop, no
\* Timer is created and no waiting Timer starts its callback; in particular
\* a cycle that was running at that moment does not schedule a next one.
C4_CancelIsTerminal ==
  [][(mainpc = "serving" /\ interrupted /\ timers[timer].finished
        /\ mainpc' = "serving") =>
       /\ ntimers' = ntimers
       /\ \A t \in Threads :
            timers[t].phase = "waiting" => timers'[t].phase # "running"]_vars

\* C5: a refresh whose file write failed raises nothing and has installed
\* {old: previous new, new: captured snapshot}.
C5_WriteFailureStillInstalls ==
  \A t \in Threads :
    timers[t].wfail =>
      /\ timers[t].err = ""
      /\ Cur.new = timers[t].cap
      /\ Cur.old = TheVal(timers[t].pre).new

\* C6: unless interrupt() was invoked, once the loop is started there is
\* always a Timer waiting or a cycle running, also after a cycle in which the
\* capture or the file write failed.
C6_SchedulerNeverStops ==
  (mainpc = "serving" /\ ~interrupted) =>
    \E t \in Threads : timers[t].phase \in {"waiting", "running"}

\* C7: when the capture of a Metrics.refresh() call failed, the state readers
\* see is exactly the state that was installed when the call began.
C7_CaptureFailureKeepsState ==
  \A t \in Threads :
    timers[t].err = "capture" =>
      /\ timers[t].pre # None
      /\ Cur = TheVal(timers[t].pre)
      /\ Cur = installed[state]

\* the capture failed in a cycle that followed a completed one
C7_Witness ==
  /\ ncomplete >= 1
  /\ Cur.new # None
  /\ Cur.old # Cur.new
  /\ \E t \in Threads : timers[t].err = "capture"

\* C8: the differ extracts the same value from the snapshot loaded back from
\* the file as from the snapshot that was written to it.
C8_RoundTrip ==
  file_x # None =>
    Get(Some(JsonLoads(TheVal(file)))) = Get(file_x)

\* C9: in a run constructed from a persisted file, if the first refresh
\* captures the same address data for the configured interface as the file's
\* snapshot holds, the ipv6_prefix diff of that refresh is 0.
C9_RestartIsNoChange ==
  ( /\ ncomplete = 1
    /\ loaded_x # None
    /\ DictGet(TheVal(g_cap), PyStr(Interface))
         = DictGet(TheVal(loaded_x), PyStr(Interface)) )
  => Cur.diff[DifferName] = 0

\* C10: after construction, old and new are both None if the file is missing
\* and both the loaded snapshot otherwise.
C10_ConstructSeedsState ==
  mainpc = "constructed" =>
    IF file = None
    THEN Cur.old = None /\ Cur.new = None
    ELSE TheVal(file).kind = "object" =>
           /\ Cur.old = Some(JsonLoads(TheVal(file)))
           /\ Cur.new = Some(JsonLoads(TheVal(file)))

\* C11: when the file's content is not a JSON object, the constructor leaves
\* old = new = None, and no later refresh raises in a differ because of the
\* value the constructor loaded.
C11_LoadFailsClosed ==
  /\ (mainpc = "constructed" /\ file # None /\ TheVal(file).kind # "object")
       => (Cur.old = None /\ Cur.new = None)
  /\ \A t \in Threads :
       timers[t].err = "differs" =>
         LET loaded == TheVal(timers[t].pre).new
         IN  loaded = None \/ IsDict(TheVal(loaded))

\* C12: when a cycle in which the OS no longer reports the configured
\* interface has ended, and the cycle before it had extracted a prefix, the
\* installed state has old = the previous new, no value extracted from new,
\* and diff 1.
C12_DisappearedInterface ==
  /\ ( /\ ncomplete >= 1
       /\ g_os # None
       /\ PyStr(Interface) \notin DOMAIN TheVal(g_os)
       /\ ~GetRaises(g_prev)
       /\ Get(g_prev) # None )
     => /\ Cur.old = g_prev
        /\ Get(Cur.new) = None
        /\ Cur.diff[DifferName] = 1
  /\ \A t \in Threads :
       ( /\ timers[t].phase = "exited"
         /\ timers[t].seen # None
         /\ PyStr(Interface) \notin DOMAIN TheVal(timers[t].seen)
         /\ ~GetRaises(TheVal(timers[t].pre).new)
         /\ Get(TheVal(timers[t].pre).new) # None )
       => /\ Cur.old = TheVal(timers[t].pre).new
          /\ Get(Cur.new) = None
          /\ Cur.diff[DifferName] = 1

\* C13: after every completed refresh the diff map has, for the differ, 1 if
\* the value extracted from old differs from the value extracted from new and
\* 0 otherwise; so without a loaded baseline the first cycle that finds an
\* address reports 1, and a cycle that finds the snapshot of the cycle before
\* reports 0.
C13_DiffMatchesExtraction ==
  ncomplete >= 1 =>
    /\ DOMAIN Cur.diff = DifferNames
    /\ Cur.diff[DifferName] = (IF Get(Cur.old) = Get(Cur.new) THEN 0 ELSE 1)
    /\ (ncomplete = 1 /\ Cur.old = None /\ Get(Cur.new) # None)
         => Cur.diff[DifferName] = 1
    /\ (ncomplete >= 2 /\ Cur.old = Cur.new) => Cur.diff[DifferName] = 0

\* no file at start, the same address in cycles 1 and 2: diff 0 after cycle 2
C13_Witness ==
  /\ restarts = 0
  /\ ncomplete = 2
  /\ Cur.old = Cur.new
  /\ Get(Cur.new) # None
  /\ Cur.diff[DifferName] = 0

\* C14: right after the differ ran, the value it returned (stored in the new
\* diff map) is 0 for (absent, absent) and (v, v), 1 for (absent, v),
\* (v, absent) and (v1, v2) with v1 # v2, and the gauge holds that value.
C14_DiffIsInequality ==
  \A t \in Threads :
    InStep(t, "open") =>
      LET ns == heap[TheVal(timers[t].ns)]
          old == Get(ns.old)
          new == Get(ns.new)
          ret == ns.diff[DifferName]
      IN  /\ (old = None /\ new = None) => ret = 0
          /\ (old = None /\ new # None) => ret = 1
          /\ (old # None /\ new = None) => ret = 1
          /\ (old # None /\ new # None /\ TheVal(old) = TheVal(new))
               => ret = 0
          /\ (old # None /\ new # None /\ TheVal(old) # TheVal(new))
               => ret = 1
          /\ gauge = ret

\* the differ has just compared two different prefixes
C14_Witness ==
  \E t \in Threads :
    /\ InStep(t, "open")
    /\ LET ns == heap[TheVal(timers[t].ns)]
       IN  /\ Get(ns.old) # None
           /\ Get(ns.new) # None
           /\ Get(ns.old) # Get(ns.new)
           /\ ns.diff[DifferName] = 1
           /\ gauge = 1

\* C15: for the snapshot S a refresh has captured, get(S) does not raise, and
\* it returns no value when the configured interface is missing from S, or
\* its IPv6 list is missing or empty, or the first entry has no address.
C15_GetNeverRaises ==
  \A t \in Threads :
    InStep(t, "differs") =>
      LET S == heap[TheVal(timers[t].ns)].new
          d == TheVal(S)
          ifc == PyStr(Interface)
          fam == PyInt(AF_INET6)
          missing ==
            \/ ifc \notin DOMAIN d
            \/ fam \notin DOMAIN d[ifc]
            \/ Len(d[ifc][fam]) = 0
            \/ d[ifc][fam][1].addr = None
      IN  /\ ~GetRaises(S)
          /\ missing => Get(S) = None

\* C16: when two consecutive cycles both found a first IPv6 address, the diff
\* of the second is 0 if the two addresses agree in their leading
\* PrefixLength bits and 1 otherwise.
C16_SamePrefixNoChange ==
  ( /\ ncomplete >= 2
    /\ Cur.old # None
    /\ AddrOf(TheVal(Cur.old)) # None
    /\ AddrOf(TheVal(Cur.new)) # None )
  => LET a == ParseIPv6(TheVal(AddrOf(TheVal(Cur.old))))
         b == ParseIPv6(TheVal(AddrOf(TheVal(Cur.new))))
         bit(x, k) == (x[((k - 1) \div 16) + 1]
                         \div (2 ^ (15 - ((k - 1) % 16)))) % 2
         same == \A k \in 1..PrefixLength : bit(a, k) = bit(b, k)
     IN  Cur.diff[DifferName] = (IF same THEN 0 ELSE 1)

\* 2001:db8::1 became 2001:db8::2: same /64, diff 0
C16_Witness ==
  /\ ncomplete >= 2
  /\ Cur.old # None
  /\ AddrOf(TheVal(Cur.old)) = Some("2001:db8::1")
  /\ AddrOf(TheVal(Cur.new)) = Some("2001:db8::2")
  /\ Cur.diff[DifferName] = 0

\* C17: while the refresh loop has not been started, interrupt() calls raise
\* nothing, and no Timer has been created, started or run.
C17_EarlyInterruptHarmless ==
  (mainpc # "serving" /\ interrupted) =>
    /\ ~ierr
    /\ ntimers = 1
    /\ ncomplete = 0
    /\ \A t \in Threads : timers[t].phase = "created"

\* interrupt() was invoked twice before the loop was started
C17_Witness ==
  /\ mainpc # "serving"
  /\ icalls = 2

\* C18: whatever a handler returns is a JSON object (possibly empty), never
\* null.
C18_ReadSurfaceWellFormed ==
  rd.pc # "idle" => Response.kind = "object"

\* C19: the snapshot a refresh captured maps every interface the OS reported
\* to the address data the OS holds for that interface.
C19_SnapshotOwnData ==
  \A t \in Threads :
    (timers[t].cap # None /\ timers[t].seen # None) =>
      /\ DOMAIN TheVal(timers[t].cap) = DOMAIN TheVal(timers[t].seen)
      /\ \A i \in DOMAIN TheVal(timers[t].seen) :
           TheVal(timers[t].cap)[i] = TheVal(timers[t].seen)[i]

\* C20: when no Metrics.refresh() is executing and a refresh has completed,
\* the gauge equals the differ's entry in the installed diff map.
C20_GaugeMatchesDiff ==
  ( /\ \A t \in Threads : ~InMetricsRefresh(t)
    /\ ncomplete >= 1 )
  => gauge = Cur.diff[DifferName]

====
